---- MODULE Spec2Model ----
(***************************************************************************)
(* A model of libusbpy: the Python wrapper classes LibusbContext,          *)
(* LibusbDeviceList, LibusbDevice, LibusbException and the descriptor      *)
(* classes, together with the calls they issue to the libusb collaborator. *)
(*                                                                         *)
(* Six specifications share the variables:                                 *)
(*   Spec       device enumeration, handles, reference counts              *)
(*   SpecQuery  the stateless query wrappers and the error mapping         *)
(*   SpecDesc   configuration descriptor fetch, tree building and release  *)
(*   SpecTree   tree building and field lookup over any buffer contents    *)
(*   SpecList   len, indexing and iteration of a LibusbDeviceList          *)
(*   SpecCtx    init and exit of LibusbContext objects                     *)
(***************************************************************************)
EXTENDS Integers, Sequences, FiniteSets, TLC

VARIABLES
    refcnt,     \* Spec: collaborator reference count ledger, per device
    explicit,   \* Spec: ref_device / unref_device calls made, per device
    lists,      \* Spec: the LibusbDeviceList objects created so far
    handles,    \* Spec: the LibusbDevice objects created so far
    call,       \* SpecQuery: the last wrapper call, its reply and outcome
    device,     \* SpecDesc: the configurations the device under test reports
    heap,       \* SpecDesc: configuration buffers the collaborator handed out
    cfgFrees,   \* SpecDesc: free_config_descriptor calls, per address
    objs,       \* SpecDesc: LibusbConfigurationDescriptor objects
    dcall,      \* SpecDesc: the last descriptor call and its outcome
    iters,      \* SpecList: the DeviceListIterator objects created so far
    lcall,      \* SpecList: the last len or indexing call and its outcome
    contexts,   \* SpecCtx: the LibusbContext objects
    sessions    \* SpecCtx: the collaborator's sessions

vars == <<refcnt, explicit, lists, handles, call, device, heap, cfgFrees, objs,
          dcall, iters, lcall, contexts, sessions>>

lifeVars == <<refcnt, explicit, lists, handles>>
queryVars == <<call>>
descVars == <<device, heap, cfgFrees, objs, dcall>>
listVars == <<iters, lcall>>
ctxVars == <<contexts, sessions>>

(***************************************************************************)
(* Bounds of the model.                                                    *)
(***************************************************************************)
MaxChainDepth == 8
MaxPort == 2
MaxPacketSize == 3
MaxSpeedCode == 7
MaxStatus == 14

(***************************************************************************)
(* libusb status codes and speed codes, as named by the wrapper.           *)
(***************************************************************************)
LIBUSB_SUCCESS == 0
LIBUSB_ERROR_IO == -1
LIBUSB_ERROR_INVALID_PARAM == -2
LIBUSB_ERROR_ACCESS == -3
LIBUSB_ERROR_NO_DEVICE == -4
LIBUSB_ERROR_NOT_FOUND == -5
LIBUSB_ERROR_BUSY == -6
LIBUSB_ERROR_TIMEOUT == -7
LIBUSB_ERROR_OVERFLOW == -8
LIBUSB_ERROR_PIPE == -9
LIBUSB_ERROR_INTERRUPTED == -10
LIBUSB_ERROR_NO_MEM == -11
LIBUSB_ERROR_NOT_SUPPORTED == -12
LIBUSB_ERROR_OTHER == -99

LIBUSB_SPEED_UNKNOWN == 0
LIBUSB_SPEED_LOW == 1
LIBUSB_SPEED_FULL == 2
LIBUSB_SPEED_HIGH == 3
LIBUSB_SPEED_SUPER == 4
LIBUSB_SPEED_SUPER_PLUS == 5

\* The capacity of the buffer get_port_numbers hands to the collaborator.
PortBufferLen == 7

(***************************************************************************)
(* Outcomes of a Python call: a returned value or a raised exception.      *)
(***************************************************************************)
None == "None"

Return(v) == [kind |-> "return", value |-> v]

Raise(e) == [kind |-> "raise", exc |-> e]

(***************************************************************************)
(* str(int): the decimal rendering used by the f-strings of the messages.  *)
(***************************************************************************)
DigitChars == <<"0", "1", "2", "3", "4", "5", "6", "7", "8", "9">>

RECURSIVE FormatNat(_)
FormatNat(n) ==
    IF n < 10 THEN <<DigitChars[n + 1]>>
    ELSE FormatNat(n \div 10) \o <<DigitChars[(n % 10) + 1]>>

FormatInt(n) == IF n < 0 THEN <<"-">> \o FormatNat(-n) ELSE FormatNat(n)

(***************************************************************************)
(* LibusbException(error): the message is "(" + str(error) + ") " + text,  *)
(* kept as the sequence of its characters up to ")" and the text.          *)
(***************************************************************************)
ErrorText_InvalidParamAsIO(error) ==
    IF error = LIBUSB_ERROR_IO THEN " IO Error"
    ELSE IF error = LIBUSB_ERROR_INVALID_PARAM THEN " IO Error"
    ELSE IF error = LIBUSB_ERROR_ACCESS THEN " Access denied (insufficient permissions)"
    ELSE IF error = LIBUSB_ERROR_NO_DEVICE THEN " No such device (it may have been disconnected)"
    ELSE IF error = LIBUSB_ERROR_NOT_FOUND THEN " Entity not found"
    ELSE IF error = LIBUSB_ERROR_BUSY THEN " Resource busy"
    ELSE IF error = LIBUSB_ERROR_TIMEOUT THEN " Operation timed out"
    ELSE IF error = LIBUSB_ERROR_OVERFLOW THEN " Overflow"
    ELSE IF error = LIBUSB_ERROR_PIPE THEN " Pipe error"
    ELSE IF error = LIBUSB_ERROR_INTERRUPTED THEN " System call interrupted (perhaps due to signal)"
    ELSE IF error = LIBUSB_ERROR_NO_MEM THEN " Insufficient memory"
    ELSE IF error = LIBUSB_ERROR_NOT_SUPPORTED THEN " Operation not supported or unimplemented on this platform"
    ELSE " Other error"

ErrorText(error) ==
    IF error = LIBUSB_ERROR_IO THEN " IO Error"
    ELSE IF error = LIBUSB_ERROR_INVALID_PARAM THEN " Invalid parameter"
    ELSE IF error = LIBUSB_ERROR_ACCESS THEN " Access denied (insufficient permissions)"
    ELSE IF error = LIBUSB_ERROR_NO_DEVICE THEN " No such device (it may have been disconnected)"
    ELSE IF error = LIBUSB_ERROR_NOT_FOUND THEN " Entity not found"
    ELSE IF error = LIBUSB_ERROR_BUSY THEN " Resource busy"
    ELSE IF error = LIBUSB_ERROR_TIMEOUT THEN " Operation timed out"
    ELSE IF error = LIBUSB_ERROR_OVERFLOW THEN " Overflow"
    ELSE IF error = LIBUSB_ERROR_PIPE THEN " Pipe error"
    ELSE IF error = LIBUSB_ERROR_INTERRUPTED THEN " System call interrupted (perhaps due to signal)"
    ELSE IF error = LIBUSB_ERROR_NO_MEM THEN " Insufficient memory"
    ELSE IF error = LIBUSB_ERROR_NOT_SUPPORTED THEN " Operation not supported or unimplemented on this platform"
    ELSE " Other error"

LibusbException(error) ==
    [type |-> "LibusbException",
     message |-> <<"(">> \o FormatInt(error) \o <<")">> \o <<ErrorText(error)>>]

NoExc == [type |-> "None", message |-> <<>>]

ValueError == [type |-> "ValueError", message |-> <<>>]

TypeError == [type |-> "TypeError", message |-> <<>>]

AttributeError == [type |-> "AttributeError", message |-> <<>>]

IndexError == [type |-> "IndexError", message |-> <<>>]

StopIteration == [type |-> "StopIteration", message |-> <<>>]

(***************************************************************************)
(* LibusbDeviceSpeed(value): the lookup of an Enum member by value.  A     *)
(* value that no member has raises ValueError.                             *)
(***************************************************************************)
SpeedMember ==
    (LIBUSB_SPEED_UNKNOWN :> "UNKNOWN") @@ (LIBUSB_SPEED_LOW :> "LOW") @@
    (LIBUSB_SPEED_FULL :> "FULL") @@ (LIBUSB_SPEED_HIGH :> "HIGH") @@
    (LIBUSB_SPEED_SUPER :> "SUPER") @@ (LIBUSB_SPEED_SUPER_PLUS :> "SUPER_PLUS")

LibusbDeviceSpeed(value) ==
    IF value \in DOMAIN SpeedMember THEN Return(SpeedMember[value])
    ELSE Raise(ValueError)

\* LibusbDevice.get_device_speed
get_device_speed(code) == LibusbDeviceSpeed(code)

\* LibusbDevice.get_max_packet_size, given the collaborator's reply
get_max_packet_size(ret) ==
    IF ret = LIBUSB_SUCCESS THEN Return(ret) ELSE Raise(LibusbException(ret))

\* LibusbDevice.get_max_iso_packet_size, given the collaborator's reply
get_max_iso_packet_size(ret) ==
    IF ret = LIBUSB_SUCCESS THEN Return(ret) ELSE Raise(LibusbException(ret))

(***************************************************************************)
(* libusb.get_port_numbers(dev, buffer, len): the collaborator writes the  *)
(* root-to-device chain into the buffer and replies with its length, or    *)
(* replies LIBUSB_ERROR_OVERFLOW when the chain does not fit.  The buffer  *)
(* starts zeroed (ct.c_buffer(b"", 7)).                                    *)
(***************************************************************************)
ZeroBuffer(len) == [i \in 1..len |-> 0]

libusb_get_port_numbers(chain, len) ==
    IF Len(chain) > len
    THEN [ret |-> LIBUSB_ERROR_OVERFLOW,
          buf |-> [i \in 1..len |-> chain[Len(chain) - len + i]]]
    ELSE [ret |-> Len(chain),
          buf |-> [i \in 1..len |-> IF i <= Len(chain) THEN chain[i] ELSE 0]]

\* tuple([numbers[x][0] for x in range(0, ret)]), dropping the last element
PortTuple_Short(buf, ret) == [x \in 1..(ret - 1) |-> buf[x]]

\* tuple([numbers[x][0] for x in range(0, ret)])
PortTuple(buf, ret) == [x \in 1..ret |-> buf[x]]

\* LibusbDevice.get_port_numbers, given the collaborator's reply
get_port_numbers(reply) ==
    IF reply.ret >= LIBUSB_SUCCESS THEN Return(PortTuple(reply.buf, reply.ret))
    ELSE Raise(LibusbException(reply.ret))

(***************************************************************************)
(* SpecQuery: the query wrappers applied to every reply of the             *)
(* collaborator, and LibusbException built from every status code.         *)
(***************************************************************************)
StatusCodes == ((-MaxStatus)..(-1)) \cup {LIBUSB_ERROR_OTHER}

NamedCodes ==
    {LIBUSB_ERROR_IO, LIBUSB_ERROR_INVALID_PARAM, LIBUSB_ERROR_ACCESS,
     LIBUSB_ERROR_NO_DEVICE, LIBUSB_ERROR_NOT_FOUND, LIBUSB_ERROR_BUSY,
     LIBUSB_ERROR_TIMEOUT, LIBUSB_ERROR_OVERFLOW, LIBUSB_ERROR_PIPE,
     LIBUSB_ERROR_INTERRUPTED, LIBUSB_ERROR_NO_MEM, LIBUSB_ERROR_NOT_SUPPORTED}

PacketReplies == StatusCodes \cup (0..MaxPacketSize)

SpeedCodes == 0..MaxSpeedCode

Chains == UNION {[1..n -> 1..MaxPort] : n \in 0..MaxChainDepth}

\* A call of a wrapper: asked with the collaborator's reply (or the
\* constructor's argument) at hand, then done with its outcome.
Asked(op, arg, reply) ==
    [op |-> op, stage |-> "asked", arg |-> arg, reply |-> reply,
     out |-> Return(None)]

Done(c, out) == [c EXCEPT !.stage = "done", !.out = out]

NoCall == Asked("none", 0, 0)

InitQuery == call = NoCall

InitAnyCall ==
    \/ \E ret \in PacketReplies : call = Asked("get_max_packet_size", 0, ret)
    \/ \E ret \in PacketReplies : call = Asked("get_max_iso_packet_size", 0, ret)
    \/ \E code \in SpeedCodes : call = Asked("get_device_speed", 0, code)
    \/ \E chain \in Chains :
           call = Asked("get_port_numbers", chain,
                        libusb_get_port_numbers(chain, PortBufferLen))
    \/ \E error \in PacketReplies : call = Asked("LibusbException", error, 0)

GetMaxPacketSize ==
    /\ call.stage = "asked" /\ call.op = "get_max_packet_size"
    /\ call' = Done(call, get_max_packet_size(call.reply))
    /\ UNCHANGED <<lifeVars, descVars, listVars, ctxVars>>

GetMaxIsoPacketSize ==
    /\ call.stage = "asked" /\ call.op = "get_max_iso_packet_size"
    /\ call' = Done(call, get_max_iso_packet_size(call.reply))
    /\ UNCHANGED <<lifeVars, descVars, listVars, ctxVars>>

GetDeviceSpeed ==
    /\ call.stage = "asked" /\ call.op = "get_device_speed"
    /\ call' = Done(call, get_device_speed(call.reply))
    /\ UNCHANGED <<lifeVars, descVars, listVars, ctxVars>>

GetPortNumbers ==
    /\ call.stage = "asked" /\ call.op = "get_port_numbers"
    /\ call' = Done(call, get_port_numbers(call.reply))
    /\ UNCHANGED <<lifeVars, descVars, listVars, ctxVars>>

RaiseLibusbException ==
    /\ call.stage = "asked" /\ call.op = "LibusbException"
    /\ call' = Done(call, Raise(LibusbException(call.arg)))
    /\ UNCHANGED <<lifeVars, descVars, listVars, ctxVars>>

NextQuery ==
    \/ GetMaxPacketSize
    \/ GetMaxIsoPacketSize
    \/ GetDeviceSpeed
    \/ GetPortNumbers
    \/ RaiseLibusbException

(***************************************************************************)
(* Reading a message back: the number between "(" and ")", and the text.   *)
(***************************************************************************)
CharDigit(c) == CHOOSE d \in 0..9 : DigitChars[d + 1] = c

RECURSIVE ParseNat(_)
ParseNat(s) ==
    IF Len(s) = 0 THEN 0
    ELSE ParseNat(SubSeq(s, 1, Len(s) - 1)) * 10 + CharDigit(s[Len(s)])

ParseInt(s) == IF s[1] = "-" THEN -ParseNat(Tail(s)) ELSE ParseNat(s)

MessageCode(msg) == ParseInt(SubSeq(msg, 2, Len(msg) - 2))

MessageText(msg) == msg[Len(msg)]

IsLibusbException(out) ==
    /\ out.kind = "raise"
    /\ out.exc.type = "LibusbException"

\* C6 (as claimed): get_max_packet_size and get_max_iso_packet_size return
\* the collaborator's value whenever it is non-negative, and raise
\* LibusbException only when it is negative.
C6_PacketSizeReturned ==
    (call.stage = "done" /\ call.op \in {"get_max_packet_size", "get_max_iso_packet_size"}) =>
        /\ call.reply >= 0 => call.out = Return(call.reply)
        /\ call.out.kind = "raise" => call.reply < 0

\* C7 (as claimed): get_device_speed never fails; a defined code yields its
\* speed and every other code yields UNKNOWN.
C7_SpeedNeverFails ==
    (call.stage = "done" /\ call.op = "get_device_speed") =>
        /\ call.out.kind = "return"
        /\ call.out.value =
             (IF call.reply \in DOMAIN SpeedMember THEN SpeedMember[call.reply]
              ELSE "UNKNOWN")

\* C8: get_port_numbers returns the complete chain, outermost port first, one
\* element per hop, at most 7 elements, equal to what the collaborator wrote,
\* or raises; a chain deeper than 7 raises Overflow and nothing is returned.
C8_PortChainCompleteOrOverflow ==
    (call.stage = "done" /\ call.op = "get_port_numbers") =>
        /\ call.out.kind = "return" =>
             /\ call.out.value = call.arg
             /\ Len(call.out.value) <= PortBufferLen
             /\ call.out.value = SubSeq(call.reply.buf, 1, call.reply.ret)
        /\ Len(call.arg) <= PortBufferLen => call.out.kind = "return"
        /\ Len(call.arg) > PortBufferLen =>
             /\ IsLibusbException(call.out)
             /\ MessageCode(call.out.exc.message) = LIBUSB_ERROR_OVERFLOW
             /\ MessageText(call.out.exc.message) = " Overflow"

C8_Witness_Overflow ==
    /\ call.stage = "done"
    /\ call.op = "get_port_numbers"
    /\ Len(call.arg) > PortBufferLen
    /\ call.out.kind = "raise"

\* C10: each of the twelve named status codes produces its own error kind
\* (message text), every other code produces the Other kind, and the error
\* always carries the original numeric code.
C10_ErrorMappingOneToOne ==
    (call.stage = "done" /\ call.op = "LibusbException") =>
        LET msg == call.out.exc.message
            error == call.arg
        IN /\ IsLibusbException(call.out)
           /\ MessageCode(msg) = error
           /\ error \notin NamedCodes => MessageText(msg) = " Other error"
           /\ error \in NamedCodes =>
                /\ MessageText(msg) # " Other error"
                /\ \A other \in NamedCodes \ {error} :
                       MessageText(msg) # ErrorText(other)

C10_Witness_NamedAndCarried ==
    /\ call.stage = "done"
    /\ call.op = "LibusbException"
    /\ call.arg = LIBUSB_ERROR_NOT_SUPPORTED
    /\ MessageCode(call.out.exc.message) = LIBUSB_ERROR_NOT_SUPPORTED
    /\ MessageText(call.out.exc.message) # " Other error"

(***************************************************************************)
(* Spec: enumeration, device handles and reference counts.                 *)
(*                                                                         *)
(* refcnt[d] is the ledger of the collaborator's reference count of device *)
(* d as far as this library moves it: the references the collaborator      *)
(* takes for enumeration entries, plus ref_device calls, minus             *)
(* unref_device calls.  The collaborator destroys the device when the real *)
(* count reaches zero; the ledger keeps counting below that.               *)
(***************************************************************************)
NumDevices == 2
MaxLists == 1
MaxHandles == 4
MaxRefCalls == 1

Dev == 1..NumDevices

NULL == 0

\* libusb.get_parent(dev): the devices form a chain below the root device 1;
\* the root has no parent.
libusb_get_parent(d) == d - 1

\* libusb.ref_device(dev)
libusb_ref_device(rc, d) == [rc EXCEPT ![d] = @ + 1]

\* libusb.unref_device(dev)
libusb_unref_device(rc, d) == [rc EXCEPT ![d] = @ - 1]

\* libusb.free_device_list(list, 0): the array is released, no device is
\* unreferenced.
libusb_free_device_list(rc, unref_devices) == rc

\* libusb.get_device_list(ctx, &list): on success one reference is taken on
\* every device of the array and the count is the reply; on failure the
\* pointer is left NULL and the reply is the negative status.
RECURSIVE RefAll(_, _, _)
RefAll(rc, array, i) ==
    IF i > Len(array) THEN rc
    ELSE RefAll(libusb_ref_device(rc, array[i]), array, i + 1)

libusb_get_device_list_ok(rc, array, id) ==
    [ret |-> Len(array), devices |-> id, array |-> array,
     rc |-> RefAll(rc, array, 1)]

libusb_get_device_list_failed(rc, status) ==
    [ret |-> status, devices |-> NULL, array |-> <<>>, rc |-> rc]

\* LibusbDevice.ref_device
ref_device(rc, d) == libusb_ref_device(rc, d)

\* LibusbDevice.unref_device
unref_device(rc, d) == libusb_unref_device(rc, d)

\* LibusbDevice.__init__ taking a reference of its own
LibusbDevice_init_TakesRef(rc, d) == libusb_ref_device(rc, d)

\* LibusbDevice.__init__: the device reference is stored, nothing is called.
LibusbDevice_init(rc, d) == rc

\* LibusbDevice.__del__
LibusbDevice_del(rc, d) == unref_device(rc, d)

\* range(0, n) of Python, as the indices 1..n of a sequence (empty for n <= 0)
PyRange(n) == 1..n

\* A LibusbDevice object: its device, where it came from (an entry of list l,
\* or get_parent), whether the caller holds a reference to it, and whether
\* its __del__ has run.
NewHandle(d, origin, l, held) ==
    [dev |-> d, origin |-> origin, list |-> l, held |-> held, state |-> "live"]

\* [LibusbDevice(self._devices[index]) for index in range(0, self._device_nbr)]
RECURSIVE InitAll(_, _, _, _)
InitAll(rc, array, n, i) ==
    IF i \notin PyRange(n) THEN rc
    ELSE InitAll(LibusbDevice_init(rc, array[i]), array, n, i + 1)

\* LibusbDeviceList.__init__
LibusbDeviceList_init(devices, device_nbr, array, l, base) ==
    [obj |-> [devices |-> devices, device_nbr |-> device_nbr,
              list |-> [i \in PyRange(device_nbr) |-> base + i],
              state |-> "live", frees |-> 0],
     new |-> [i \in PyRange(device_nbr) |-> NewHandle(array[i], "list", l, FALSE)]]

\* LibusbDeviceList.__del__: one free_device_list call with self._devices
LibusbDeviceList_del(obj) == [obj EXCEPT !.frees = @ + 1]

\* The referrers of a handle: the caller, and the _list of a list object that
\* still exists.
Referenced(hs, ls, h) ==
    \/ hs[h].held
    \/ hs[h].origin = "list" /\ ls[hs[h].list].state = "live"

\* Every live handle without a referrer is collected: its __del__ runs.
Collectable(hs, ls) ==
    {h \in DOMAIN hs : hs[h].state = "live" /\ ~Referenced(hs, ls, h)}

RECURSIVE DelAll(_, _, _)
DelAll(rc, hs, todo) ==
    IF todo = {} THEN rc
    ELSE LET h == CHOOSE x \in todo : TRUE
         IN DelAll(LibusbDevice_del(rc, hs[h].dev), hs, todo \ {h})

Collect(hs, ls) ==
    [h \in DOMAIN hs |->
        IF h \in Collectable(hs, ls) THEN [hs[h] EXCEPT !.state = "dead"]
        ELSE hs[h]]

\* The arrays an enumeration can report: a device is attached only below an
\* attached parent, so the attached devices are 1..k, in that order.
Attached == {[i \in 1..k |-> i] : k \in 0..NumDevices}

EnumErrors == {LIBUSB_ERROR_NO_MEM}

InitLife ==
    /\ refcnt = [d \in Dev |-> 0]
    /\ explicit = [d \in Dev |-> [refs |-> 0, unrefs |-> 0]]
    /\ lists = <<>>
    /\ handles = <<>>

\* LibusbContext.get_device_list, given the collaborator's reply
GetDeviceListWith(reply) ==
    LET l == Len(lists) + 1
        made == LibusbDeviceList_init(reply.devices, reply.ret, reply.array,
                                      l, Len(handles))
    IN /\ Len(handles) + Len(made.new) <= MaxHandles
       /\ refcnt' = InitAll(reply.rc, reply.array, reply.ret, 1)
       /\ lists' = Append(lists, made.obj)
       /\ handles' = handles \o made.new
       /\ UNCHANGED <<explicit, queryVars, descVars, listVars, ctxVars>>

GetDeviceList ==
    /\ Len(lists) < MaxLists
    /\ \/ \E array \in Attached :
            GetDeviceListWith(
                libusb_get_device_list_ok(refcnt, array, Len(lists) + 1))
       \/ \E status \in EnumErrors :
            GetDeviceListWith(libusb_get_device_list_failed(refcnt, status))

\* self._list[index] of Python: a negative index counts from the end; 0 here
\* stands for IndexError.
PyIndex(seq, index) ==
    IF 0 <= index /\ index < Len(seq) THEN index + 1
    ELSE IF index < 0 /\ -index <= Len(seq) THEN Len(seq) + index + 1
    ELSE 0

\* LibusbDeviceList.__getitem__: the caller keeps the handle it is given.
GetItem(l, index) ==
    /\ lists[l].state = "live"
    /\ PyIndex(lists[l].list, index) # 0
    /\ LET h == lists[l].list[PyIndex(lists[l].list, index)]
       IN handles' = [handles EXCEPT ![h].held = TRUE]
    /\ UNCHANGED <<refcnt, explicit, lists, queryVars, descVars, listVars, ctxVars>>

\* The caller drops its reference to a handle.
DropHandle(h) ==
    /\ handles[h].state = "live"
    /\ handles[h].held
    /\ LET hs == [handles EXCEPT ![h].held = FALSE]
       IN /\ refcnt' = DelAll(refcnt, hs, Collectable(hs, lists))
          /\ handles' = Collect(hs, lists)
    /\ UNCHANGED <<explicit, lists, queryVars, descVars, listVars, ctxVars>>

\* The ref_device and unref_device calls made so far, over all devices.
RECURSIVE SumCalls(_)
SumCalls(d) ==
    IF d = 0 THEN 0
    ELSE explicit[d].refs + explicit[d].unrefs + SumCalls(d - 1)

ExplicitCalls == SumCalls(NumDevices)

\* handle.ref_device()
RefDevice(h) ==
    /\ handles[h].state = "live"
    /\ handles[h].held
    /\ ExplicitCalls < MaxRefCalls
    /\ refcnt' = ref_device(refcnt, handles[h].dev)
    /\ explicit' = [explicit EXCEPT ![handles[h].dev].refs = @ + 1]
    /\ UNCHANGED <<handles, lists, queryVars, descVars, listVars, ctxVars>>

\* handle.unref_device()
UnrefDevice(h) ==
    /\ handles[h].state = "live"
    /\ handles[h].held
    /\ ExplicitCalls < MaxRefCalls
    /\ refcnt' = unref_device(refcnt, handles[h].dev)
    /\ explicit' = [explicit EXCEPT ![handles[h].dev].unrefs = @ + 1]
    /\ UNCHANGED <<handles, lists, queryVars, descVars, listVars, ctxVars>>

\* handle.get_parent()
GetParent(h) ==
    /\ handles[h].state = "live"
    /\ handles[h].held
    /\ LET parent == libusb_get_parent(handles[h].dev)
       IN \/ /\ parent # NULL
             /\ Len(handles) < MaxHandles
             /\ refcnt' = LibusbDevice_init(refcnt, parent)
             /\ handles' = Append(handles, NewHandle(parent, "parent", 0, TRUE))
          \/ /\ parent = NULL
             /\ UNCHANGED <<refcnt, handles>>
    /\ UNCHANGED <<explicit, lists, queryVars, descVars, listVars, ctxVars>>

\* list.__del__() run by hand, once, on a list the caller keeps.
DelList(l) ==
    /\ lists[l].state = "live"
    /\ lists[l].frees = 0
    /\ lists' = [lists EXCEPT ![l] = LibusbDeviceList_del(@)]
    /\ refcnt' = libusb_free_device_list(refcnt, 0)
    /\ UNCHANGED <<explicit, handles, queryVars, descVars, listVars, ctxVars>>

\* The caller drops the list: __del__ runs, the object goes, and the handles
\* of its _list that nobody else refers to are collected.
DropList(l) ==
    /\ lists[l].state = "live"
    /\ LET ls == [lists EXCEPT ![l] = [LibusbDeviceList_del(@) EXCEPT !.state = "gone"]]
           rc == libusb_free_device_list(refcnt, 0)
       IN /\ lists' = ls
          /\ refcnt' = DelAll(rc, handles, Collectable(handles, ls))
          /\ handles' = Collect(handles, ls)
    /\ UNCHANGED <<explicit, queryVars, descVars, listVars, ctxVars>>

Next ==
    \/ GetDeviceList
    \/ \E l \in DOMAIN lists : \E index \in (-NumDevices)..(NumDevices - 1) :
           GetItem(l, index)
    \/ \E h \in DOMAIN handles : DropHandle(h)
    \/ \E h \in DOMAIN handles : RefDevice(h)
    \/ \E h \in DOMAIN handles : UnrefDevice(h)
    \/ \E h \in DOMAIN handles : GetParent(h)
    \/ \E l \in DOMAIN lists : DelList(l)
    \/ \E l \in DOMAIN lists : DropList(l)

(***************************************************************************)
(* SpecDesc: fetching a configuration descriptor, building the tree of     *)
(* wrapper objects over the collaborator's buffer, and releasing it.       *)
(*                                                                         *)
(* A ctypes value is a pointer to a buffer or the structure at a buffer;   *)
(* both know the buffer's address.  heap[a] is the configuration record    *)
(* the collaborator stored at address a.                                   *)
(***************************************************************************)
MaxConfigs == 2
MaxInterfaces == 2
MaxAlts == 2
MaxEndpoints == 1
MaxObjs == 2

Ptr(a) == [tag |-> "ptr", addr |-> a]

Struct(a) == [tag |-> "struct", addr |-> a]

\* x[0]: a pointer is dereferenced; a Structure is not subscriptable.
Subscriptable(x) == x.tag = "ptr"

Deref(mem, x) == mem[x.addr]

\* What a POINTER(config_descriptor) parameter receives: a pointer as it is,
\* a structure by reference; either way the buffer's address.
ctypes_from_param(x) == x.addr

\* bytes(extra[0:extra_length])
Bytes(extra, extra_length) == SubSeq(extra, 1, extra_length)

\* The records the collaborator writes: an endpoint, an alternate setting, an
\* interface and a configuration, with the child counts it found.
MkEndpoint(k) ==
    [bLength |-> 7 + k, bDescriptorType |-> 5, bEndpointAddress |-> 128 + k,
     bmAttributes |-> 2, wMaxPacketSize |-> 64, bInterval |-> k,
     bRefresh |-> 0, bSynchAddress |-> 0,
     extra |-> [i \in 1..k |-> 16 + i], extra_length |-> k]

MkAlt(num, alt, nEp) ==
    [bLength |-> 9, bDescriptorType |-> 4, bInterfaceNumber |-> num,
     bAlternateSetting |-> alt, bNumEndpoints |-> nEp, bInterfaceClass |-> 255,
     bInterfaceSubClass |-> 1, bInterfaceProtocol |-> 0, iInterface |-> 3,
     endpoint |-> [k \in 1..nEp |-> MkEndpoint(k)],
     extra |-> [i \in 1..alt |-> 32 + i], extra_length |-> alt]

MkInterface(num, nAlt, nEp) ==
    [altsetting |-> [a \in 1..nAlt |-> MkAlt(num, a - 1, nEp)],
     num_altsetting |-> nAlt]

MkConfig(value, nIf, nAlt, nEp) ==
    [bLength |-> 9, bDescriptorType |-> 2,
     wTotalLength |-> 9 + nIf * nAlt * (9 + 7 * nEp),
     bNumInterfaces |-> nIf, bConfigurationValue |-> value,
     iConfiguration |-> 0, bmAttributes |-> 128, MaxPower |-> 50,
     interface |-> [n \in 1..nIf |-> MkInterface(n - 1, nAlt, nEp)],
     extra |-> [i \in 1..(value - 1) |-> 48 + i], extra_length |-> value - 1]

Devices ==
    {[configs |-> [v \in 1..n |-> MkConfig(v, nIf, nAlt, nEp)], active |-> act] :
        n \in 0..MaxConfigs, act \in 0..MaxConfigs,
        nIf \in 0..MaxInterfaces, nAlt \in 1..MaxAlts, nEp \in 0..MaxEndpoints}

\* A new object has no attributes.
NoAttrs == <<>>

\* Setting an attribute of self.
SetAttr(self, name, v) == (name :> v) @@ self

\* LibusbDescriptor.__init__, storing the descriptor only after reading it
LibusbDescriptor_init_StoreLate(mem, descriptor) ==
    IF ~Subscriptable(descriptor)
    THEN [self |-> NoAttrs, exc |-> TypeError]
    ELSE [self |-> SetAttr(SetAttr(SetAttr(NoAttrs,
                     "_bLength", Deref(mem, descriptor).bLength),
                     "_bDescriptorType", Deref(mem, descriptor).bDescriptorType),
                     "_descriptor", descriptor),
          exc |-> NoExc]

\* LibusbDescriptor.__init__
LibusbDescriptor_init(mem, descriptor) ==
    LET s1 == SetAttr(NoAttrs, "_descriptor", descriptor)
    IN IF ~Subscriptable(descriptor) THEN [self |-> s1, exc |-> TypeError]
       ELSE [self |-> SetAttr(SetAttr(s1,
                        "_bLength", Deref(mem, descriptor).bLength),
                        "_bDescriptorType", Deref(mem, descriptor).bDescriptorType),
             exc |-> NoExc]

\* ct.pointer(x): a new pointer, known by the record it leads to
ct_pointer(d) == [tag |-> "ptr", to |-> d]

\* LibusbEndpointDescriptor.__init__ over ct.pointer(endpoint[index]); d is the
\* record the pointer leads to.
LibusbEndpointDescriptor(d) ==
    ("_descriptor" :> ct_pointer(d)) @@
    ("_bLength" :> d.bLength) @@ ("_bDescriptorType" :> d.bDescriptorType) @@
    ("_bEndpointAddress" :> d.bEndpointAddress) @@
    ("_bmAttributes" :> d.bmAttributes) @@
    ("_wMaxPacketSize" :> d.wMaxPacketSize) @@ ("_bInterval" :> d.bInterval) @@
    ("_bRefresh" :> d.bRefresh) @@ ("_bSynchAddress" :> d.bSynchAddress) @@
    ("_extra" :> Bytes(d.extra, d.extra_length))

\* LibusbInterfaceDescriptor.__init__ over ct.pointer(altsetting[index])
LibusbInterfaceDescriptor(d) ==
    ("_descriptor" :> ct_pointer(d)) @@
    ("_bLength" :> d.bLength) @@ ("_bDescriptorType" :> d.bDescriptorType) @@
    ("_bInterfaceNumber" :> d.bInterfaceNumber) @@
    ("_bAlternateSetting" :> d.bAlternateSetting) @@
    ("_bNumEndpoints" :> d.bNumEndpoints) @@
    ("_bInterfaceClass" :> d.bInterfaceClass) @@
    ("_bInterfaceSubClass" :> d.bInterfaceSubClass) @@
    ("_bInterfaceProtocol" :> d.bInterfaceProtocol) @@
    ("_iInterface" :> d.iInterface) @@
    ("_endpoint" :> [index \in PyRange(d.bNumEndpoints) |->
                        LibusbEndpointDescriptor(d.endpoint[index])]) @@
    ("_extra" :> Bytes(d.extra, d.extra_length))

\* LibusbInterface.__init__ wrapping the first alternate setting only
LibusbInterface_FirstAltOnly(interface) ==
    ("_altsetting" :> [index \in PyRange(1) |->
                          LibusbInterfaceDescriptor(interface.altsetting[index])])

\* LibusbInterface.__init__
LibusbInterface(interface) ==
    ("_altsetting" :> [index \in PyRange(interface.num_altsetting) |->
                          LibusbInterfaceDescriptor(interface.altsetting[index])])

\* LibusbConfigurationDescriptor.__init__
LibusbConfigurationDescriptor_init(mem, descriptor) ==
    LET base == LibusbDescriptor_init(mem, descriptor)
    IN IF base.exc # NoExc THEN base
       ELSE LET d == Deref(mem, descriptor)
            IN [self |->
                    ("_wTotalLength" :> d.wTotalLength) @@
                    ("_bNumInterfaces" :> d.bNumInterfaces) @@
                    ("_bConfigurationValue" :> d.bConfigurationValue) @@
                    ("_iConfiguration" :> d.iConfiguration) @@
                    ("_bmAttributes" :> d.bmAttributes) @@
                    ("_MaxPower" :> d.MaxPower) @@
                    ("_interface" :> [index \in PyRange(d.bNumInterfaces) |->
                                         LibusbInterface(d.interface[index])]) @@
                    ("_extra" :> Bytes(d.extra, d.extra_length)) @@
                    base.self,
                exc |-> NoExc]

\* libusb.free_config_descriptor(config)
libusb_free_config_descriptor(frees, addr) == [frees EXCEPT ![addr] = @ + 1]

\* LibusbConfigurationDescriptor.__del__; without a _descriptor attribute the
\* lookup raises AttributeError, which a finalizer swallows, and nothing is
\* freed.
LibusbConfigurationDescriptor_del(frees, self) ==
    IF "_descriptor" \in DOMAIN self
    THEN libusb_free_config_descriptor(frees, ctypes_from_param(self["_descriptor"]))
    ELSE frees

\* libusb.get_active_config_descriptor(dev, &config)
libusb_get_active_config_descriptor(dev) ==
    IF dev.active \in DOMAIN dev.configs
    THEN [ret |-> LIBUSB_SUCCESS, config |-> dev.configs[dev.active]]
    ELSE [ret |-> LIBUSB_ERROR_NOT_FOUND, config |-> None]

\* libusb.get_config_descriptor(dev, index, &config)
libusb_get_config_descriptor(dev, index) ==
    IF index + 1 \in DOMAIN dev.configs
    THEN [ret |-> LIBUSB_SUCCESS, config |-> dev.configs[index + 1]]
    ELSE [ret |-> LIBUSB_ERROR_NOT_FOUND, config |-> None]

\* c_config as handed to the constructor by get_active_config_descriptor
ActiveArgument(a) == Ptr(a)

\* c_config[0] as handed to the constructor by get_config_descriptor
IndexedArgument(a) == Struct(a)

NoDescCall == [op |-> "none", index |-> 0, ret |-> 0, out |-> Return(None)]

InitDescIdle ==
    /\ device = [configs |-> <<>>, active |-> 0]
    /\ heap = <<>>
    /\ cfgFrees = [a \in 0..MaxObjs |-> 0]
    /\ objs = <<>>
    /\ dcall = NoDescCall

InitDesc ==
    /\ device \in {dv \in Devices : dv.active <= Len(dv.configs)}
    /\ heap = <<>>
    /\ cfgFrees = [a \in 0..MaxObjs |-> 0]
    /\ objs = <<>>
    /\ dcall = NoDescCall

\* The part of both fetch methods after the collaborator's reply.
FetchConfig(op, index, reply, argument) ==
    IF reply.ret # LIBUSB_SUCCESS
    THEN /\ dcall' = [op |-> op, index |-> index, ret |-> reply.ret,
                      out |-> Raise(LibusbException(reply.ret))]
         /\ UNCHANGED <<heap, objs, cfgFrees>>
         /\ UNCHANGED <<device, lifeVars, queryVars, listVars, ctxVars>>
    ELSE LET a == Len(heap) + 1
             mem == Append(heap, reply.config)
             made == LibusbConfigurationDescriptor_init(mem, argument)
         IN /\ Len(objs) < MaxObjs
            /\ heap' = mem
            /\ objs' = Append(objs, [self |-> made.self, state |-> "live",
                                     op |-> op, index |-> index, addr |-> a,
                                     built |-> made.exc = NoExc])
            /\ dcall' = [op |-> op, index |-> index, ret |-> reply.ret,
                         out |-> IF made.exc = NoExc THEN Return(Len(objs) + 1)
                                 ELSE Raise(made.exc)]
            /\ UNCHANGED cfgFrees
            /\ UNCHANGED <<device, lifeVars, queryVars, listVars, ctxVars>>

\* LibusbDevice.get_active_config_descriptor
GetActiveConfigDescriptor ==
    FetchConfig("get_active_config_descriptor", 0,
                libusb_get_active_config_descriptor(device),
                ActiveArgument(Len(heap) + 1))

\* LibusbDevice.get_config_descriptor
GetConfigDescriptor(index) ==
    FetchConfig("get_config_descriptor", index,
                libusb_get_config_descriptor(device, index),
                IndexedArgument(Len(heap) + 1))

\* The last reference to a configuration object goes (the caller's, or the
\* traceback's when the constructor raised): __del__ runs.
DropConfig(o) ==
    /\ objs[o].state = "live"
    /\ objs' = [objs EXCEPT ![o].state = "dead"]
    /\ cfgFrees' = LibusbConfigurationDescriptor_del(cfgFrees, objs[o].self)
    /\ UNCHANGED <<heap, dcall>>
    /\ UNCHANGED <<device, lifeVars, queryVars, listVars, ctxVars>>

NextDesc ==
    \/ GetActiveConfigDescriptor
    \/ \E index \in 0..MaxConfigs : GetConfigDescriptor(index)
    \/ \E o \in DOMAIN objs : DropConfig(o)

(***************************************************************************)
(* SpecTree: the constructors and the field lookup as functions of what    *)
(* the buffer holds.  A buffer is given as memory shows it (config) and as *)
(* the collaborator allocated it (present); a declared count may exceed    *)
(* the children present, and the slot behind the last child then holds     *)
(* whatever lies there, or cannot be read at all.                          *)
(***************************************************************************)
\* What can lie behind the last element of a child array.
JunkInterfaces == {MkInterface(0, nAlt, 0) : nAlt \in 0..1}

JunkAlts == {MkAlt(0, 0, 0)}

JunkEndpoints == {MkEndpoint(k) : k \in 0..1}

\* bNumInterfaces one more than the interfaces present
OverstateInterfaces(c, junk) ==
    [c EXCEPT !.bNumInterfaces = @ + 1, !.interface = Append(@, junk)]

\* num_altsetting of the first interface one more than its alternate settings
OverstateAlts(c, junk) ==
    [c EXCEPT !.interface[1].num_altsetting = @ + 1,
              !.interface[1].altsetting = Append(@, junk)]

\* bNumEndpoints of the first alternate setting one more than its endpoints
OverstateEndpoints(c, junk) ==
    [c EXCEPT !.interface[1].altsetting[1].bNumEndpoints = @ + 1,
              !.interface[1].altsetting[1].endpoint = Append(@, junk)]

Sound ==
    {MkConfig(1, nIf, nAlt, nEp) :
        nIf \in 0..MaxInterfaces, nAlt \in 1..MaxAlts, nEp \in 0..MaxEndpoints}

Buffers ==
    {[config |-> c, present |-> c, level |-> "none"] : c \in Sound}
    \cup {[config |-> OverstateInterfaces(c, j), present |-> c,
           level |-> "bNumInterfaces"] : c \in Sound, j \in JunkInterfaces}
    \cup {[config |-> OverstateAlts(c, j), present |-> c,
           level |-> "num_altsetting"] :
             c \in {x \in Sound : x.bNumInterfaces > 0}, j \in JunkAlts}
    \cup {[config |-> OverstateEndpoints(c, j), present |-> c,
           level |-> "bNumEndpoints"] :
             c \in {x \in Sound : x.bNumInterfaces > 0}, j \in JunkEndpoints}

\* The child slots the constructors index: interface[i], altsetting[a] of
\* it, endpoint[e] of that, each over range(0, declared count).
SlotsRead(d) ==
    {<<i>> : i \in PyRange(d.bNumInterfaces)}
    \cup UNION {{<<i, a>> : a \in PyRange(d.interface[i].num_altsetting)} :
                  i \in PyRange(d.bNumInterfaces)}
    \cup UNION {UNION {{<<i, a, e>> :
                          e \in PyRange(d.interface[i].altsetting[a].bNumEndpoints)} :
                         a \in PyRange(d.interface[i].num_altsetting)} :
                  i \in PyRange(d.bNumInterfaces)}

\* The child slots of the buffer the collaborator allocated.
SlotsPresent(d) ==
    {<<i>> : i \in DOMAIN d.interface}
    \cup UNION {{<<i, a>> : a \in DOMAIN d.interface[i].altsetting} :
                  i \in DOMAIN d.interface}
    \cup UNION {UNION {{<<i, a, e>> :
                          e \in DOMAIN d.interface[i].altsetting[a].endpoint} :
                         a \in DOMAIN d.interface[i].altsetting} :
                  i \in DOMAIN d.interface}

\* An invalid read ends the process.
Fault == [kind |-> "fault"]

\* What a read behind an array can do: yield what lies there, or fault.
ReadOutcomes(b) ==
    IF SlotsRead(b.config) \subseteq SlotsPresent(b.present) THEN {"read"}
    ELSE {"read", "fault"}

\* LibusbConfigurationDescriptor(pointer to the buffer)
LibusbConfigurationDescriptor(config, outcome) ==
    IF outcome = "fault" THEN Fault
    ELSE LET made == LibusbConfigurationDescriptor_init(<<config>>, Ptr(1))
         IN IF made.exc = NoExc THEN Return(made.self) ELSE Raise(made.exc)

\* LibusbDescriptor.__getitem__: getattr(self, "_" + field)
LibusbDescriptor_getitem(self, field) ==
    IF ("_" \o field) \in DOMAIN self THEN Return(self["_" \o field])
    ELSE Raise(AttributeError)

\* The descriptor objects of a tree: the configuration, its alternate
\* settings and their endpoints.
Descriptors ==
    UNION {{[class |-> "LibusbConfigurationDescriptor", record |-> c]}
           \cup {[class |-> "LibusbInterfaceDescriptor",
                  record |-> c.interface[i].altsetting[a]] :
                    i \in DOMAIN c.interface, a \in 1..MaxAlts}
           \cup {[class |-> "LibusbEndpointDescriptor",
                  record |-> c.interface[i].altsetting[1].endpoint[e]] :
                    i \in DOMAIN c.interface, e \in 1..MaxEndpoints}
           : c \in {MkConfig(1, nIf, MaxAlts, MaxEndpoints) : nIf \in 0..MaxInterfaces}}

\* The object a class builds over a record.
Construct(d) ==
    CASE d.class = "LibusbConfigurationDescriptor" ->
             LibusbConfigurationDescriptor_init(<<d.record>>, Ptr(1)).self
      [] d.class = "LibusbInterfaceDescriptor" -> LibusbInterfaceDescriptor(d.record)
      [] d.class = "LibusbEndpointDescriptor" -> LibusbEndpointDescriptor(d.record)

\* The names asked for: the fields of the three record types, the wrapper's
\* own attribute, and names no type has.
FieldNames ==
    {"bLength", "bDescriptorType", "wTotalLength", "bNumInterfaces",
     "bConfigurationValue", "iConfiguration", "bmAttributes", "MaxPower",
     "interface", "extra", "bInterfaceNumber", "bAlternateSetting",
     "bNumEndpoints", "bInterfaceClass", "bInterfaceSubClass",
     "bInterfaceProtocol", "iInterface", "endpoint", "bEndpointAddress",
     "wMaxPacketSize", "bInterval", "bRefresh", "bSynchAddress",
     "descriptor", "bogus", ""}

InitAnyBuffer ==
    \/ \E b \in Buffers : \E outcome \in ReadOutcomes(b) :
           call = Asked("LibusbConfigurationDescriptor", b, outcome)
    \/ \E d \in Descriptors : \E field \in FieldNames :
           call = Asked("__getitem__", d, field)

BuildTree ==
    /\ call.stage = "asked" /\ call.op = "LibusbConfigurationDescriptor"
    /\ call' = Done(call, LibusbConfigurationDescriptor(call.arg.config, call.reply))
    /\ UNCHANGED <<lifeVars, descVars, listVars, ctxVars>>

GetField ==
    /\ call.stage = "asked" /\ call.op = "__getitem__"
    /\ call' = Done(call, LibusbDescriptor_getitem(Construct(call.arg), call.reply))
    /\ UNCHANGED <<lifeVars, descVars, listVars, ctxVars>>

NextTree ==
    \/ BuildTree
    \/ GetField

(***************************************************************************)
(* SpecList: a LibusbDeviceList answering len(), indexing and iteration.   *)
(***************************************************************************)
MaxIters == 2
MaxStops == 2

\* LibusbDeviceList.__len__ under len(): a negative result is a ValueError
LibusbDeviceList_len(obj) ==
    IF obj.device_nbr >= 0 THEN Return(obj.device_nbr) ELSE Raise(ValueError)

\* LibusbDeviceList.__getitem__
LibusbDeviceList_getitem(obj, index) ==
    IF PyIndex(obj.list, index) = 0 THEN Raise(IndexError)
    ELSE Return(obj.list[PyIndex(obj.list, index)])

\* DeviceListIterator.__init__ starting behind the first element
DeviceListIterator_init_StartsAtOne(device_list) ==
    [_device_list |-> device_list, _len |-> Len(device_list), _index |-> 1]

\* DeviceListIterator.__init__
DeviceListIterator_init(device_list) ==
    [_device_list |-> device_list, _len |-> Len(device_list), _index |-> 0]

\* DeviceListIterator.__next__
DeviceListIterator_next(self) ==
    IF self._index < self._len
    THEN [self |-> [self EXCEPT !._index = @ + 1],
          out |-> Return(self._device_list[self._index + 1])]
    ELSE [self |-> self, out |-> Raise(StopIteration)]

\* LibusbDeviceList.__iter__
LibusbDeviceList_iter(obj) == DeviceListIterator_init(obj.list)

NoListCall == [op |-> "none", list |-> 0, index |-> 0, out |-> Return(None)]

InitListIdle ==
    /\ iters = <<>>
    /\ lcall = NoListCall

\* iter(list): the iterator, the list it came from, what it has yielded, how
\* often it has signalled the end, and whether it yielded after that.
Iter(l) ==
    /\ lists[l].state = "live"
    /\ Len(iters) < MaxIters
    /\ iters' = Append(iters, [self |-> LibusbDeviceList_iter(lists[l]),
                               list |-> l, yielded |-> <<>>, stops |-> 0,
                               late |-> FALSE])
    /\ UNCHANGED <<lcall, lifeVars, queryVars, descVars, ctxVars>>

\* next(iterator)
NextOf(i) ==
    /\ iters[i].stops < MaxStops
    /\ LET step == DeviceListIterator_next(iters[i].self)
       IN iters' = [iters EXCEPT ![i] =
             IF step.out.kind = "return"
             THEN [@ EXCEPT !.self = step.self,
                            !.yielded = Append(@, step.out.value),
                            !.late = @ \/ iters[i].stops > 0]
             ELSE [@ EXCEPT !.self = step.self, !.stops = @ + 1]]
    /\ UNCHANGED <<lcall, lifeVars, queryVars, descVars, ctxVars>>

\* list[index]
Subscript(l, index) ==
    /\ lists[l].state = "live"
    /\ lcall' = [op |-> "__getitem__", list |-> l, index |-> index,
                 out |-> LibusbDeviceList_getitem(lists[l], index)]
    /\ UNCHANGED <<iters, lifeVars, queryVars, descVars, ctxVars>>

\* len(list)
LenOf(l) ==
    /\ lists[l].state = "live"
    /\ lcall' = [op |-> "__len__", list |-> l, index |-> 0,
                 out |-> LibusbDeviceList_len(lists[l])]
    /\ UNCHANGED <<iters, lifeVars, queryVars, descVars, ctxVars>>

NextList ==
    \/ GetDeviceList
    \/ \E l \in DOMAIN lists : Iter(l)
    \/ \E i \in DOMAIN iters : NextOf(i)
    \/ \E l \in DOMAIN lists : \E index \in (-NumDevices - 1)..NumDevices :
           Subscript(l, index)
    \/ \E l \in DOMAIN lists : LenOf(l)

(***************************************************************************)
(* SpecCtx: LibusbContext objects and the collaborator's sessions.         *)
(* Session 0 is the default session, which the collaborator shares between *)
(* all users that pass no context and counts them; the sessions after it   *)
(* are the ones created for a caller's own context pointer.                *)
(***************************************************************************)
MaxInitCalls == 2

DefaultSession == 0

\* The Python value None where a pointer may stand
PyNone == [tag |-> "None", addr |-> NULL]

\* ct.POINTER(libusb.context)(): a new pointer instance, NULL
NullPointer == [tag |-> "ptr", addr |-> NULL]

\* Truth value of a name: None and the empty string are false
NameGiven(name) == name # None /\ name # ""

\* Truth value of self._context: None is false, and so is a NULL pointer
Truthy(x) == x.tag = "ptr" /\ x.addr # NULL

\* LibusbContext.__init__ keeping the name given
LibusbContext_init(name) ==
    IF NameGiven(name) THEN [_name |-> name, _context |-> NullPointer]
    ELSE [_name |-> "Default", _context |-> PyNone]

\* The session the collaborator resolves a context argument to
SessionOf(ctx) == IF ctx.addr = NULL THEN DefaultSession ELSE ctx.addr

\* libusb.init(NULL): one more user of the default session
libusb_init_default(ss) ==
    [ss EXCEPT ![DefaultSession] = [users |-> @.users + 1, alive |-> TRUE]]

\* libusb.init(&ctx): a new session, written to the caller's pointer
libusb_init_own(ss, id) == [ss EXCEPT ![id] = [users |-> 1, alive |-> TRUE]]

\* libusb.exit(ctx): the default session loses a user and goes with its
\* last one; a session of its own goes at once.
libusb_exit(ss, ctx) ==
    LET id == SessionOf(ctx)
    IN IF ~ss[id].alive THEN ss
       ELSE [ss EXCEPT ![id] = [users |-> @.users - 1, alive |-> @.users > 1]]

\* LibusbContext.init, the collaborator succeeding
LibusbContext_initSession(self, ss, id) ==
    IF Truthy(self._context)
    THEN [self |-> [self EXCEPT !._context = [tag |-> "ptr", addr |-> id]],
          ss |-> libusb_init_own(ss, id)]
    ELSE [self |-> self, ss |-> libusb_init_default(ss)]

\* LibusbContext.exit
LibusbContext_exit(self, ss) == libusb_exit(ss, self._context)

ContextNames == <<"first", "second", None>>

InitErrors == {LIBUSB_ERROR_NO_MEM, LIBUSB_ERROR_OTHER}

InitCtx ==
    /\ contexts = [c \in DOMAIN ContextNames |->
                      [self |-> LibusbContext_init(ContextNames[c]),
                       named |-> NameGiven(ContextNames[c]),
                       inits |-> 0, using |-> 0, out |-> Return(None)]]
    /\ sessions = [id \in 0..(Len(ContextNames) * MaxInitCalls) |->
                      [users |-> 0, alive |-> FALSE]]

\* The first session id not yet handed out
FreshSession == CHOOSE id \in DOMAIN sessions \ {DefaultSession} :
                    /\ ~sessions[id].alive
                    /\ \A c \in DOMAIN contexts : contexts[c].self._context.addr # id

\* context.init(), the collaborator answering with ret
ContextInit(c, ret) ==
    /\ contexts[c].inits < MaxInitCalls
    /\ IF ret # LIBUSB_SUCCESS
       THEN /\ contexts' = [contexts EXCEPT ![c].inits = @ + 1,
                                            ![c].out = Raise(LibusbException(ret))]
            /\ UNCHANGED sessions
       ELSE LET made == LibusbContext_initSession(contexts[c].self, sessions,
                                                  FreshSession)
            IN /\ contexts' = [contexts EXCEPT ![c].self = made.self,
                                               ![c].inits = @ + 1,
                                               ![c].using = @ + 1,
                                               ![c].out = Return(None)]
               /\ sessions' = made.ss
    /\ UNCHANGED <<lifeVars, queryVars, descVars, listVars>>

\* context.exit() by a user that has initialised the context
ContextExit(c) ==
    /\ contexts[c].using > 0
    /\ sessions' = LibusbContext_exit(contexts[c].self, sessions)
    /\ contexts' = [contexts EXCEPT ![c].using = @ - 1, ![c].out = Return(None)]
    /\ UNCHANGED <<lifeVars, queryVars, descVars, listVars>>

NextCtx ==
    \/ \E c \in DOMAIN contexts : \E ret \in {LIBUSB_SUCCESS} \cup InitErrors :
           ContextInit(c, ret)
    \/ \E c \in DOMAIN contexts : ContextExit(c)

(***************************************************************************)
(* The specifications.                                                     *)
(***************************************************************************)
Init == InitLife /\ InitQuery /\ InitDescIdle /\ InitListIdle /\ InitCtx

Spec == Init /\ [][Next]_vars

InitAnyQuery ==
    InitLife /\ InitAnyCall /\ InitDescIdle /\ InitListIdle /\ InitCtx

SpecQuery == InitAnyQuery /\ [][NextQuery]_vars

InitAnyDevice == InitLife /\ InitQuery /\ InitDesc /\ InitListIdle /\ InitCtx

SpecDesc == InitAnyDevice /\ [][NextDesc]_vars

InitTree == InitLife /\ InitAnyBuffer /\ InitDescIdle /\ InitListIdle /\ InitCtx

SpecTree == InitTree /\ [][NextTree]_vars

SpecList == Init /\ [][NextList]_vars

SpecCtx == Init /\ [][NextCtx]_vars

(***************************************************************************)
(* Properties of Spec.                                                     *)
(***************************************************************************)
DeadHandles(d) ==
    {h \in DOMAIN handles : handles[h].dev = d /\ handles[h].state = "dead"}

\* The enumeration entries of device d: one handle was built over each.
EnumEntries(d) ==
    {h \in DOMAIN handles : handles[h].dev = d /\ handles[h].origin = "list"}

\* C2 (as claimed): the backing array of a list is freed exactly once by the
\* time the list is gone, and never a second time when the release runs
\* again on the same list.
C2_ListArrayFreedOnce ==
    \A l \in DOMAIN lists :
        lists[l].devices # NULL =>
            /\ lists[l].frees <= 1
            /\ lists[l].state = "gone" => lists[l].frees = 1

\* C3 (as claimed, its consequence): a handle taken from a list, on whose
\* device ref_device was called and not undone, and which the caller still
\* holds, has a reference count of at least 1 in every state after the list
\* has been released.
C3_RefdHandleOutlivesList ==
    \A h \in DOMAIN handles :
        ( /\ handles[h].origin = "list"
          /\ handles[h].state = "live"
          /\ handles[h].held
          /\ lists[handles[h].list].state = "gone"
          /\ explicit[handles[h].dev].refs > explicit[handles[h].dev].unrefs )
        => refcnt[handles[h].dev] >= 1

\* The first half of C3: a run of the list's __del__ alone moves no
\* reference count.
C3_ListDelKeepsCounts ==
    [][(handles' = handles /\ explicit' = explicit) => refcnt' = refcnt]_vars

\* C4: building a handle leaves the reference count of its device as it was
\* and destroying a handle lowers it by exactly one, for handles of lists and
\* of get_parent alike: the count is the enumeration entries plus the
\* ref_device calls minus the unref_device calls minus the destroyed handles.
C4_CountMovedOnlyByDestruction ==
    \A d \in Dev :
        refcnt[d] = Cardinality(EnumEntries(d))
                    + explicit[d].refs - explicit[d].unrefs
                    - Cardinality(DeadHandles(d))

C4_Witness_BothOriginsDestroyed ==
    /\ \E h \in DOMAIN handles :
           handles[h].origin = "parent" /\ handles[h].state = "dead"
    /\ \E h \in DOMAIN handles :
           handles[h].origin = "list" /\ handles[h].state = "dead"

\* C5 (as claimed): no LibusbDeviceList object is ever built from a failed
\* enumeration, that is with a negative status as its count.
C5_NoListFromFailedEnumeration ==
    \A l \in DOMAIN lists : lists[l].device_nbr >= 0

(***************************************************************************)
(* Properties of SpecDesc.                                                 *)
(***************************************************************************)
\* The attributes of a descriptor object other than the ctypes reference.
Fields(self) == [n \in (DOMAIN self) \ {"_descriptor"} |-> self[n]]

\* C1: every buffer a successful fetch hands out is freed exactly once over
\* the life of the object built on it, also when the constructor raises
\* part-way; nothing else is ever freed, so a failed fetch frees nothing.
C1_ConfigBufferFreedOnce ==
    /\ Len(objs) = Len(heap)
    /\ \A a \in DOMAIN cfgFrees : a \notin DOMAIN heap => cfgFrees[a] = 0
    /\ \A o \in DOMAIN objs :
           /\ objs[o].addr = o
           /\ cfgFrees[o] = (IF objs[o].state = "dead" THEN 1 ELSE 0)
    /\ (dcall.op # "none" /\ dcall.ret # LIBUSB_SUCCESS) =>
           dcall.out.kind = "raise"

C1_Witness_FreedAfterFailedBuild ==
    /\ \E o \in DOMAIN objs :
           ~objs[o].built /\ objs[o].state = "dead" /\ cfgFrees[objs[o].addr] = 1
    /\ \E o \in DOMAIN objs :
           objs[o].built /\ objs[o].state = "dead" /\ cfgFrees[objs[o].addr] = 1

\* C9 (as claimed): both fetch methods build the full tree whenever the
\* collaborator's fetch succeeds, get_config_descriptor(i) for the active
\* configuration's index gives an object equal field for field to the one of
\* get_active_config_descriptor, and each raises the mapped error when its
\* fetch fails.
C9_IndexedBuildsSameTreeAsActive ==
    /\ dcall.op # "none" =>
           IF dcall.ret = LIBUSB_SUCCESS
           THEN dcall.out.kind = "return" /\ objs[dcall.out.value].built
           ELSE dcall.out = Raise(LibusbException(dcall.ret))
    /\ \A o1, o2 \in DOMAIN objs :
           ( /\ objs[o1].op = "get_active_config_descriptor"
             /\ objs[o2].op = "get_config_descriptor"
             /\ objs[o2].index + 1 = device.active )
           => Fields(objs[o1].self) = Fields(objs[o2].self)

(***************************************************************************)
(* Properties of SpecTree.                                                 *)
(***************************************************************************)
\* C11 (as claimed): when a declared child count overstates the children
\* present in the buffer, building the tree raises TruncatedDescriptor and
\* reads no child slot beyond the ones present.
C11_TruncationDetected ==
    ( /\ call.stage = "done"
      /\ call.op = "LibusbConfigurationDescriptor"
      /\ call.arg.level # "none" )
    => /\ call.out.kind = "raise"
       /\ call.out.exc.type = "TruncatedDescriptor"
       /\ SlotsRead(call.arg.config) \subseteq SlotsPresent(call.arg.present)

\* The fields each descriptor type declares.
DeclaredFields(class) ==
    CASE class = "LibusbConfigurationDescriptor" ->
             {"bLength", "bDescriptorType", "wTotalLength", "bNumInterfaces",
              "bConfigurationValue", "iConfiguration", "bmAttributes",
              "MaxPower", "interface", "extra"}
      [] class = "LibusbInterfaceDescriptor" ->
             {"bLength", "bDescriptorType", "bInterfaceNumber",
              "bAlternateSetting", "bNumEndpoints", "bInterfaceClass",
              "bInterfaceSubClass", "bInterfaceProtocol", "iInterface",
              "endpoint", "extra"}
      [] class = "LibusbEndpointDescriptor" ->
             {"bLength", "bDescriptorType", "bEndpointAddress", "bmAttributes",
              "wMaxPacketSize", "bInterval", "bRefresh", "bSynchAddress",
              "extra"}

\* The declared fields that hold children or bytes rather than a number.
CompoundFields == {"interface", "endpoint", "extra"}

\* C12 (as claimed): descriptor[name] returns the decoded value for every
\* field the descriptor's type declares, bLength and bDescriptorType
\* included, and raises for every other name, the wrapper's own attribute
\* 'descriptor' included.
C12_FieldLookupTotalAndStrict ==
    (call.stage = "done" /\ call.op = "__getitem__") =>
        IF call.reply \in DeclaredFields(call.arg.class)
        THEN /\ call.out.kind = "return"
             /\ call.reply \notin CompoundFields =>
                    call.out.value = call.arg.record[call.reply]
             /\ call.reply = "extra" =>
                    call.out.value = Bytes(call.arg.record.extra,
                                           call.arg.record.extra_length)
        ELSE call.out.kind = "raise"

(***************************************************************************)
(* Properties of SpecList.                                                 *)
(***************************************************************************)
\* C13: every iterator of a list of length N starts at index 0 whatever the
\* other iterators have done, yields the handles of indices 0..N-1 in index
\* order, each once, the same objects indexing returns, and after its first
\* end-of-iteration signal yields nothing further.
C13_IterationFiniteInOrder ==
    \A i \in DOMAIN iters :
        LET it == iters[i]
            list == lists[it.list].list
        IN /\ Len(it.yielded) <= Len(list)
           /\ it.yielded = SubSeq(list, 1, Len(it.yielded))
           /\ \A k \in DOMAIN it.yielded :
                  LibusbDeviceList_getitem(lists[it.list], k - 1) = Return(it.yielded[k])
           /\ it.stops > 0 => it.yielded = list
           /\ ~it.late

C13_Witness_TwoIteratorsApart ==
    \E i, j \in DOMAIN iters :
        /\ iters[i].list = iters[j].list
        /\ Len(lists[iters[i].list].list) >= 2
        /\ iters[i].stops >= 2
        /\ Len(iters[i].yielded) = Len(lists[iters[i].list].list)
        /\ Len(iters[j].yielded) = 1
        /\ iters[j].stops = 0

\* C14 (as claimed): for a list built over an array of count N, len() is N,
\* list[i] is the handle wrapping array slot i for 0 <= i < N, and list[i]
\* fails for every other integer i, the negative ones included.
C14_LenAndIndexInRangeOnly ==
    (lcall.op # "none" /\ lists[lcall.list].device_nbr >= 0) =>
        LET obj == lists[lcall.list]
            N == obj.device_nbr
        IN /\ lcall.op = "__len__" => lcall.out = Return(N)
           /\ lcall.op = "__getitem__" =>
                IF 0 <= lcall.index /\ lcall.index < N
                THEN /\ lcall.out = Return(obj.list[lcall.index + 1])
                     /\ handles[lcall.out.value].origin = "list"
                     /\ handles[lcall.out.value].list = lcall.list
                     /\ handles[lcall.out.value].dev = lcall.index + 1
                ELSE lcall.out.kind = "raise"

(***************************************************************************)
(* Properties of SpecCtx.                                                  *)
(***************************************************************************)
\* C15 (as claimed): a named context that has been initialised uses a
\* session of its own, neither the shared default session nor the session
\* of another context, and that session exists for as long as the context
\* has not been exited.
C15_NamedContextsIndependent ==
    \A c \in DOMAIN contexts :
        (contexts[c].named /\ contexts[c].using > 0) =>
            /\ SessionOf(contexts[c].self._context) # DefaultSession
            /\ \A o \in DOMAIN contexts \ {c} :
                   contexts[o].using > 0 =>
                       SessionOf(contexts[o].self._context)
                           # SessionOf(contexts[c].self._context)
            /\ sessions[SessionOf(contexts[c].self._context)].alive

(***************************************************************************)
(* Further properties of SpecDesc and Spec.                                *)
(***************************************************************************)
\* C16: in a built tree the configuration holds bNumInterfaces interfaces in
\* source order, each interface num_altsetting alternate settings and each
\* alternate setting bNumEndpoints endpoints; one interface with one
\* alternate setting without endpoints gives exactly that, with empty extra.
C16_ChildCountsMatchDeclared ==
    \A o \in DOMAIN objs :
        objs[o].built =>
            LET t == objs[o].self
                d == heap[objs[o].addr]
            IN /\ Len(t["_interface"]) = d.bNumInterfaces
               /\ t["_bNumInterfaces"] = d.bNumInterfaces
               /\ t["_extra"] = Bytes(d.extra, d.extra_length)
               /\ \A i \in DOMAIN t["_interface"] :
                    LET alts == t["_interface"][i]["_altsetting"]
                    IN /\ Len(alts) = d.interface[i].num_altsetting
                       /\ \A a \in DOMAIN alts :
                            /\ alts[a]["_bInterfaceNumber"] =
                                   d.interface[i].altsetting[a].bInterfaceNumber
                            /\ alts[a]["_bAlternateSetting"] =
                                   d.interface[i].altsetting[a].bAlternateSetting
                            /\ Len(alts[a]["_endpoint"]) = alts[a]["_bNumEndpoints"]
                            /\ alts[a]["_bNumEndpoints"] =
                                   d.interface[i].altsetting[a].bNumEndpoints
                            /\ alts[a]["_extra"] =
                                   Bytes(d.interface[i].altsetting[a].extra,
                                         d.interface[i].altsetting[a].extra_length)

C16_Witness_OneInterfaceNoEndpoints ==
    \E o \in DOMAIN objs :
        /\ objs[o].built
        /\ heap[objs[o].addr].bNumInterfaces = 1
        /\ heap[objs[o].addr].interface[1].num_altsetting = 1
        /\ heap[objs[o].addr].interface[1].altsetting[1].bNumEndpoints = 0
        /\ Len(objs[o].self["_interface"]) = 1
        /\ Len(objs[o].self["_interface"][1]["_altsetting"]) = 1
        /\ objs[o].self["_interface"][1]["_altsetting"][1]["_endpoint"] = <<>>
        /\ objs[o].self["_interface"][1]["_altsetting"][1]["_extra"] = <<>>
        /\ objs[o].self["_extra"] = <<>>

\* C17 (as claimed): with every unref_device call of the caller matched by
\* a ref_device call, the decrements issued on a device (handle
\* destructions and unref_device calls) never exceed the references held on
\* it (enumeration entries and ref_device calls), and a device with a live
\* handle keeps a count of at least 1.
C17_DecrementsWithinReferences ==
    \A d \in Dev :
        explicit[d].unrefs <= explicit[d].refs =>
            /\ Cardinality(DeadHandles(d)) + explicit[d].unrefs
                   <= Cardinality(EnumEntries(d)) + explicit[d].refs
            /\ (\E h \in DOMAIN handles :
                    handles[h].dev = d /\ handles[h].state = "live")
                   => refcnt[d] >= 1

====
